---- MODULE Spec2Model ----
(***************************************************************************)
(* Flask-Injector: the request scope (RequestScope) and the handler        *)
(* adapter (preconfigure_app / postconfigure_app / wrap_fun) of            *)
(* src/flask_injector.py, as a state machine.                              *)
(*                                                                         *)
(* SpecScope drives RequestScope.reset and RequestScope.get directly, from *)
(* several contexts, one statement at a time.                              *)
(* Spec is the application: preconfigure_app, the registration of routes   *)
(* and hooks, postconfigure_app, and then requests, each one the host      *)
(* framework's walk through the before-request hooks, the view function,   *)
(* the after-request hooks and the teardown hooks.                         *)
(***************************************************************************)
EXTENDS Integers, Sequences, FiniteSets, TLC

(***************************************************************************)
(* Bounds of the model.                                                    *)
(***************************************************************************)
\* providers (InstanceProvider objects) that may be created in one run
MaxAlloc == 2
\* factory calls (provider.get()) that may raise in one run
MaxFail == 1
\* routes and hooks the application registers
MaxReg == 2
\* requests served in one run
MaxRequests == 2

\* execution contexts (threads / greenlets: werkzeug's Local keys its
\* storage by the identity of the current one)
Ctx == {"c1", "c2"}
\* the context that builds the injector and so runs RequestScope.configure
MainCtx == "c1"
\* binding keys bound in the request scope
ScopedKeys == {"kdb", "kses"}
\* what provider.get() of the binding's own provider does when it is called:
\* "new" builds a fresh object (a class or callable provider), "bound" hands
\* back the one object the binding was given (bind(.., to=instance,
\* scope=request), as in the module's docstring), "raise" raises
Factories == {"new", "bound", "raise"}
NoKey == "nokey"
\* the exception a raising factory raises
FactoryError == "FactoryError"

(***************************************************************************)
(* State.                                                                  *)
(***************************************************************************)
VARIABLES
    storage,    \* self._locals: per context, whether the attribute `scope`
                \* exists and the dict it holds (key -> provider id, 0: no entry)
    providers,  \* the InstanceProvider objects created so far; id = index
    pc,         \* per context: position inside a RequestScope call
    arg,        \* per context: the key of the get under way
    result,     \* per context: outcome of the last completed call (called:
                \* it called the factory; first: it is the first get of
                \* its key since the last reset(); same: the context's
                \* store is what it was when the call began; retry: the
                \* call before it in the context was a get of the same key
                \* whose factory raised)
    pre,        \* per context: the context's store when the get under way began
    firstRet,   \* per context and key: provider returned by the first get
                \* that returned since the last reset() in the context
    since,      \* per context and key: factory calls since (and including)
                \* that first returning get
    stale,      \* per context and key: provider cached when reset() was
                \* last called with the key cached
    asked,      \* per context: keys asked for since the last reset()
    fails,      \* raising factory calls so far
    phase,      \* setup: "new", "pre" (preconfigure_app done), "post"
    view_functions,              \* app.view_functions: endpoint -> callable
    before_request_funcs,        \* app.before_request_funcs[None]
    after_request_funcs,         \* app.after_request_funcs[None]
    teardown_request_funcs,      \* app.teardown_request_funcs[None]
    template_context_processors, \* app.template_context_processors[None]
    view_class, \* per view function: closures `cls` put around its view_class
    regs,       \* routes and hooks registered so far
    late,       \* a route or hook was registered after postconfigure_app
    stage,      \* per context: where its request is
    idx,        \* per context: the hook of the current list that runs next
    req,        \* per context: the request's endpoint and view arguments
                \* (hp0: the providers that existed when it began; c0: the
                \* value of counter when it began)
    nreq,       \* per context: requests begun
    counter,    \* reset() calls made on the scope object so far, by setup
                \* and by the requests' hooks
    log,        \* per context: the current request's view function call (at:
                \* the value of counter when it was made)
    lastCall,   \* per context: the last call of a registered callable
    response,   \* per context: what the last finished request answered
    resolved,   \* functions whose bindings the injector was asked to resolve
    got         \* per context: the request-scoped instances the callables of
                \* the current request were injected with

scopeVars == <<storage, providers, pc, arg, result, pre, firstRet, since,
               stale, asked, fails>>

appVars == <<phase, view_functions, before_request_funcs, after_request_funcs,
             teardown_request_funcs, template_context_processors, view_class,
             regs, late, stage, idx, req, nreq, counter, log, lastCall,
             response, resolved, got>>

vars == <<scopeVars, appVars>>

NoArg == NoKey
EmptyDict == [k \in ScopedKeys |-> 0]
NoAttr == [has |-> FALSE, scope |-> EmptyDict]
NoResult == [op |-> "none", key |-> NoKey, out |-> "none", val |-> 0,
             called |-> FALSE, first |-> FALSE, exc |-> "none", same |-> TRUE,
             retry |-> FALSE]

(***************************************************************************)
(* RequestScope, statement by statement, as functions of the Local's       *)
(* storage `st` and the heap of providers `hp`.                            *)
(***************************************************************************)
\* (a plain attribute in place of the Local: one slot for every context)
ident_shared(c) == MainCtx

\* configure, line 105: self._locals = Local(); the storage slot the Local
\* resolves to in context c is the context's own
ident(c) == c

\* (a cleanup that releases every context's slot)
cleanup_all(st, c) == [x \in Ctx |-> NoAttr]

\* reset, line 101: self._local_manager.cleanup() releases the current
\* context's slot of the Local
cleanup(st, c) == [st EXCEPT ![ident(c)] = NoAttr]

\* (the assignment left out)
set_scope_noop(st, c) == st

\* reset, line 102: self._locals.scope = {}
set_scope(st, c) == [st EXCEPT ![ident(c)] = [has |-> TRUE, scope |-> EmptyDict]]

\* RequestScope.reset as a whole
reset(st, c) == set_scope(cleanup(st, c), c)

\* RequestScope.configure: a new Local (no context has the attribute), then
\* reset() in the configuring context
configure(c) == reset([x \in Ctx |-> NoAttr], c)

\* (a lookup that never finds an entry)
lookup_nocache(st, c, k) ==
    IF ~st[ident(c)].has THEN "AttributeError" ELSE "KeyError"

\* get, line 111: self._locals.scope[key]
lookup(st, c, k) ==
    IF ~st[ident(c)].has THEN "AttributeError"
    ELSE IF st[ident(c)].scope[k] = 0 THEN "KeyError"
    ELSE "hit"

getitem(st, c, k) == st[ident(c)].scope[k]

\* get, line 113: InstanceProvider(provider.get()) for a factory that returns
InstanceProvider(hp, c, k, f) ==
    [ctx |-> c, key |-> k, inst |-> IF f = "new" THEN Len(hp) + 1 ELSE 0]

\* get, line 114: self._locals.scope[key] = provider
setitem(st, c, k, p) == [st EXCEPT ![ident(c)].scope[k] = p]

\* (the entry is stored before the factory is called)
miss_poison(st, hp, c, k, f) ==
    IF f = "raise"
    THEN [st |-> setitem(st, c, k, Len(hp) + 1), hp |-> hp, out |-> "raise",
          val |-> 0, exc |-> FactoryError]
    ELSE [st |-> setitem(st, c, k, Len(hp) + 1),
          hp |-> Append(hp, InstanceProvider(hp, c, k, f)),
          out |-> "return", val |-> Len(hp) + 1, exc |-> "none"]

\* get, lines 112-115: the except branch; the factory is called first, and
\* when it raises nothing else of the branch runs
miss(st, hp, c, k, f) ==
    IF f = "raise"
    THEN [st |-> st, hp |-> hp, out |-> "raise", val |-> 0, exc |-> FactoryError]
    ELSE [st |-> setitem(st, c, k, Len(hp) + 1),
          hp |-> Append(hp, InstanceProvider(hp, c, k, f)),
          out |-> "return", val |-> Len(hp) + 1, exc |-> "none"]

(***************************************************************************)
(* The same steps on the whole scope state W (storage, heap and the        *)
(* bookkeeping the properties read).                                       *)
(***************************************************************************)
World == [st |-> storage, hp |-> providers, result |-> result, pre |-> pre,
          firstRet |-> firstRet, since |-> since, stale |-> stale,
          asked |-> asked, fails |-> fails]

SetWorld(W) ==
    /\ storage' = W.st
    /\ providers' = W.hp
    /\ result' = W.result
    /\ pre' = W.pre
    /\ firstRet' = W.firstRet
    /\ since' = W.since
    /\ stale' = W.stale
    /\ asked' = W.asked
    /\ fails' = W.fails

\* the last call completed in c was a get of k whose factory raised
Raised(W, c, k) ==
    /\ W.result[c].op = "get"
    /\ W.result[c].key = k
    /\ W.result[c].out = "raise"
    /\ W.result[c].exc = FactoryError

\* reset() is entered and its first statement runs
W_cleanup(W, c) ==
    [W EXCEPT !.st = cleanup(W.st, c),
              !.stale[c] = [k \in ScopedKeys |->
                              IF W.st[c].has /\ W.st[c].scope[k] # 0
                              THEN W.st[c].scope[k] ELSE @[k]],
              !.firstRet[c] = EmptyDict,
              !.since[c] = EmptyDict,
              !.asked[c] = {}]

\* reset()'s second statement runs and reset() returns
W_assign(W, c) ==
    [W EXCEPT !.st = set_scope(W.st, c),
              !.result[c] = [NoResult EXCEPT !.op = "reset", !.out = "return"]]

\* get() is entered
W_enter(W, c) == [W EXCEPT !.pre[c] = W.st[c]]

\* the lookup of line 111 found the key: get() returns the entry v
W_found(W, c, k, v) ==
    [W EXCEPT !.result[c] = [NoResult EXCEPT !.op = "get", !.key = k,
                                             !.out = "return", !.val = v,
                                             !.first = k \notin W.asked[c],
                                             !.same = W.st[c] = W.pre[c],
                                             !.retry = Raised(W, c, k)],
              !.pre[c] = NoAttr,
              !.firstRet[c][k] = IF @ = 0 THEN v ELSE @,
              !.asked[c] = @ \cup {k}]

W_hit(W, c, k) == W_found(W, c, k, getitem(W.st, c, k))

\* the lookup of line 111 raised AttributeError: get() raises it
W_attrerr(W, c, k) ==
    [W EXCEPT !.result[c] = [NoResult EXCEPT !.op = "get", !.key = k,
                                             !.out = "raise",
                                             !.exc = "AttributeError",
                                             !.first = k \notin W.asked[c],
                                             !.same = W.st[c] = W.pre[c],
                                             !.retry = Raised(W, c, k)],
              !.pre[c] = NoAttr,
              !.asked[c] = @ \cup {k}]

\* the lookup of line 111 raised KeyError and lines 113-115 did m
W_missed(W, c, k, m) ==
    [W EXCEPT !.st = m.st,
              !.hp = m.hp,
              !.result[c] = [NoResult EXCEPT !.op = "get", !.key = k,
                                             !.out = m.out, !.val = m.val,
                                             !.exc = m.exc, !.called = TRUE,
                                             !.first = k \notin W.asked[c],
                                             !.same = m.st[c] = W.pre[c],
                                             !.retry = Raised(W, c, k)],
              !.pre[c] = NoAttr,
              !.firstRet[c][k] = IF @ = 0 THEN m.val ELSE @,
              !.since[c][k] = IF m.out = "return" \/ W.firstRet[c][k] # 0
                              THEN @ + 1 ELSE @,
              !.asked[c] = @ \cup {k},
              !.fails = IF m.out = "raise" THEN @ + 1 ELSE @]

\* the lookup of line 111 raised KeyError: lines 113-115 run
W_miss(W, c, k, f) == W_missed(W, c, k, miss(W.st, W.hp, c, k, f))

\* a whole reset() call
W_reset(W, c) == W_assign(W_cleanup(W, c), c)

\* a whole get(k, f) call
W_entered(E, c, k, f, l) ==
    IF l = "hit" THEN W_hit(E, c, k)
    ELSE IF l = "AttributeError" THEN W_attrerr(E, c, k)
    ELSE W_miss(E, c, k, f)

W_get(W, c, k, f) ==
    W_entered(W_enter(W, c), c, k, f, lookup(W.st, c, k))

\* the factory can be called: the bounds leave room for its outcome
CanCall(W, f) ==
    IF f = "raise" THEN W.fails < MaxFail ELSE Len(W.hp) < MaxAlloc

(***************************************************************************)
(* The application's callables and the injector's bindings.                *)
(***************************************************************************)
\* keyword names a callable may be given
Names == {"content", "db"}
\* keys bound outside any scope (test: bind(str, to="something"),
\* bind(list, to=[1, 2, 3])), and a key the injector cannot resolve
BoundKeys == {"kstr", "klist"}
MissingKey == "kmissing"
NoBinding == "nobinding"

\* values: absent, the value bound to a key, the object a provider of the
\* request scope holds, a value the caller supplied
AbsentV == [kind |-> "absent", n |-> 0]
Const(k) == [kind |-> k, n |-> 0]
Inst(n) == [kind |-> "inst", n |-> n]
UrlV == [kind |-> "url", n |-> 0]
NoArgs == [n \in Names |-> AbsentV]
\* the keyword arguments a request's URL may supply to its view function
KwChoices == {NoArgs, [NoArgs EXCEPT !["content"] = UrlV]}

\* view functions the application may register (endpoint = function name):
\* the tests' view1, index and View2.as_view('view2'), the docstring's foo,
\* a function whose binding names a key that cannot be resolved, and the
\* as_view function of a view class that declares no bindings
Routes == {"view1", "index", "view2", "foo", "bad", "plain_view"}
\* hook functions the application may register
Hooks == {"hook_db", "hook_plain"}
HookLists == {"before", "after", "teardown", "ctxproc"}
NoFun == "nofun"

\* __bindings__ of a function (for a view function made by as_view: of its
\* view class), name -> key
Bindings(fn) ==
    CASE fn = "view1"   -> [content |-> "kstr",     db |-> NoBinding]
      [] fn = "view2"   -> [content |-> "klist",    db |-> NoBinding]
      [] fn = "bad"     -> [content |-> MissingKey, db |-> NoBinding]
      [] fn = "foo"     -> [content |-> NoBinding,  db |-> "kdb"]
      [] fn = "hook_db" -> [content |-> NoBinding,  db |-> "kdb"]
      [] OTHER          -> [content |-> NoBinding,  db |-> NoBinding]

Declares(fn) == \E n \in Names : Bindings(fn)[n] # NoBinding

\* a registered callable: the function, and the wrappers of wrap_fun around it
Fun(fn) == [fn |-> fn, layers |-> 0]
NoCallable == Fun(NoFun)

\* hasattr(fun, 'view_class'): the function was made by View.as_view
HasViewClass(cb) == cb.fn \in {"view2", "plain_view"}

\* hasattr(fun, '__bindings__'): set by @inject on a function, and copied to a
\* wrapper by functools.wraps; as_view's function does not carry its class's
HasBindings(cb) == Declares(cb.fn) /\ ~HasViewClass(cb)

\* the provider of a request-scoped key: kdb is bound to a class, kses to an
\* instance; either may fail to build
FactoryOf(k, fail) ==
    IF fail THEN "raise" ELSE IF k = "kdb" THEN "new" ELSE "bound"

(***************************************************************************)
(* The injector, as wrap_fun and cls use it.                               *)
(***************************************************************************)
\* injector.get(key): a request-scoped key goes through RequestScope.get and
\* the provider it returns is asked for its object
scoped(G, c) ==
    [W |-> G, out |-> G.result[c].out, exc |-> G.result[c].exc,
     val |-> IF G.result[c].out = "return"
             THEN Inst(G.hp[G.result[c].val].inst) ELSE AbsentV]

injector_get(W, c, k, fail) ==
    IF k \in ScopedKeys
    THEN scoped(W_get(W, c, k, FactoryOf(k, fail)), c)
    ELSE IF k \in BoundKeys
    THEN [W |-> W, out |-> "return", exc |-> "none", val |-> Const(k)]
    ELSE [W |-> W, out |-> "raise", exc |-> "UnsatisfiedRequirement",
          val |-> AbsentV]

\* one binding of args_to_inject
injected(R, n, g) ==
    [W |-> g.W, out |-> g.out, exc |-> g.exc, inj |-> [R.inj EXCEPT ![n] = g.val]]

inject_one(R, c, b, n, fail) ==
    IF R.out = "raise" \/ b[n] = NoBinding THEN R
    ELSE injected(R, n, injector_get(R.W, c, b[n], fail))

\* injector.args_to_inject(function, bindings, owner_key): name -> value
args_to_inject(W, c, b, fail) ==
    inject_one(
        inject_one([W |-> W, out |-> "return", exc |-> "none", inj |-> NoArgs],
                   c, b, "content", fail),
        c, b, "db", fail)

(***************************************************************************)
(* wrap_fun and the calls of registered callables.                         *)
(***************************************************************************)
\* positional arguments the framework calls a callable with: none (view
\* functions, before-request hooks), the response (after-request hooks), the
\* exception or None (teardown hooks)
NoPos == "()"
Positional == {NoPos, "(response,)", "(exc,)"}

\* a call of a registered callable: what it was called with (args, kw), what
\* the injector resolved (asked, res: the exception of the resolution, inj),
\* the calls of the original function (calls; invoked: at least one), what
\* the original received (recvargs, received) and did (oout, oexc, orv), and
\* what the callable itself did (out, exc, rv)
NoCall == [fn |-> NoFun, wrapped |-> FALSE, args |-> NoPos, kw |-> NoArgs,
           asked |-> FALSE, res |-> "none", inj |-> NoArgs,
           calls |-> 0, invoked |-> FALSE,
           recvargs |-> NoPos, received |-> NoArgs,
           oout |-> "none", oexc |-> "none", orv |-> NoArgs,
           out |-> "none", exc |-> "none", rv |-> NoArgs]

\* (the injected values given precedence)
merge_injected_wins(injections, kwargs) ==
    [n \in Names |-> IF injections[n] # AbsentV THEN injections[n] ELSE kwargs[n]]

\* wrapper, line 87: dict(injections, **kwargs)
merge(injections, kwargs) ==
    [n \in Names |-> IF kwargs[n] # AbsentV THEN kwargs[n] ELSE injections[n]]

\* the original function called with positional arguments a and keywords
\* kw: Python raises TypeError when a parameter it declares is not given;
\* the body returns what it was given, or raises
fun(fn, a, kw, body) ==
    IF \E n \in Names : Bindings(fn)[n] # NoBinding /\ kw[n] = AbsentV
    THEN [out |-> "raise", exc |-> "TypeError", rv |-> NoArgs, got |-> kw,
          gotargs |-> a]
    ELSE IF body = "raise"
    THEN [out |-> "raise", exc |-> "HandlerError", rv |-> NoArgs, got |-> kw,
          gotargs |-> a]
    ELSE [out |-> "return", exc |-> "none", rv |-> kw, got |-> kw,
          gotargs |-> a]

\* the call of the original function by a wrapper that resolved r, and what
\* the wrapper then returns or raises
returned(r, cb, a, kw, o) ==
    [W |-> r.W, rv |-> o.rv,
     call |-> [NoCall EXCEPT !.fn = cb.fn, !.wrapped = TRUE, !.args = a,
                             !.kw = kw, !.asked = TRUE, !.res = r.exc,
                             !.inj = r.inj, !.calls = 1, !.invoked = TRUE,
                             !.recvargs = o.gotargs, !.received = o.got,
                             !.oout = o.out, !.oexc = o.exc, !.orv = o.rv,
                             !.out = o.out, !.exc = o.exc, !.rv = o.rv]]

\* resolution raised: the wrapper raises the same
unresolved(r, cb, a, kw) ==
    [W |-> r.W, rv |-> NoArgs,
     call |-> [NoCall EXCEPT !.fn = cb.fn, !.wrapped = TRUE, !.args = a,
                             !.kw = kw, !.asked = TRUE, !.res = r.exc,
                             !.inj = r.inj, !.out = "raise", !.exc = r.exc]]

\* (a wrapper that goes on without the injections when resolution fails)
wrapper_swallow(r, cb, a, kw, body) ==
    returned(r, cb, a, kw,
             fun(cb.fn, a, merge(IF r.out = "raise" THEN NoArgs ELSE r.inj, kw),
                 body))

\* (a wrapper that passes the keywords only)
wrapper_drop_args(r, cb, a, kw, body) ==
    IF r.out = "raise" THEN unresolved(r, cb, a, kw)
    ELSE returned(r, cb, a, kw, fun(cb.fn, NoPos, merge(r.inj, kw), body))

\* wrapper, lines 86-87, with r what args_to_inject did:
\* fun(*args, **dict(injections, **kwargs))
wrapper_call(r, cb, a, kw, body) ==
    IF r.out = "raise" THEN unresolved(r, cb, a, kw)
    ELSE returned(r, cb, a, kw, fun(cb.fn, a, merge(r.inj, kw), body))

\* wrap_fun's wrapper, lines 80-87, called with arguments a and keywords kw
wrapper(W, c, cb, a, kw, fail, body) ==
    wrapper_call(args_to_inject(W, c, Bindings(cb.fn), fail), cb, a, kw, body)

\* a function that was not wrapped, called with arguments a and keywords kw
plain_call(W, cb, a, kw, o) ==
    [W |-> W, rv |-> o.rv,
     call |-> [NoCall EXCEPT !.fn = cb.fn, !.args = a, !.kw = kw,
                             !.calls = 1, !.invoked = TRUE,
                             !.recvargs = o.gotargs, !.received = o.got,
                             !.oout = o.out, !.oexc = o.exc, !.orv = o.rv,
                             !.out = o.out, !.exc = o.exc, !.rv = o.rv]]

plain(W, c, cb, a, kw, body) == plain_call(W, cb, a, kw, fun(cb.fn, a, kw, body))

\* as_view's function with the class itself as view_class: nothing is
\* injected, and dispatch_request fails on the attribute the class declares
view_direct(W, cb, a, kw) ==
    [W |-> W, rv |-> NoArgs,
     call |-> [NoCall EXCEPT
                  !.fn = cb.fn, !.args = a, !.kw = kw,
                  !.calls = 1, !.invoked = TRUE, !.recvargs = a,
                  !.oout = IF Declares(cb.fn) THEN "raise" ELSE "return",
                  !.oexc = IF Declares(cb.fn) THEN "AttributeError" ELSE "none",
                  !.out = IF Declares(cb.fn) THEN "raise" ELSE "return",
                  !.exc = IF Declares(cb.fn) THEN "AttributeError" ELSE "none"]]

\* as_view's function with cls (lines 149-151) as view_class: the injector
\* builds the object, setting the attributes its class declares (r), and
\* dispatch_request answers with them (View2 of the tests:
\* str(self.content)), or raises
create_object(r, cb, a, kw, body) ==
    IF r.out = "raise" THEN unresolved(r, cb, a, kw)
    ELSE [W |-> r.W, rv |-> IF body = "raise" THEN NoArgs ELSE r.inj,
          call |-> [NoCall EXCEPT
                       !.fn = cb.fn, !.wrapped = TRUE, !.args = a, !.kw = kw,
                       !.asked = TRUE, !.inj = r.inj,
                       !.calls = 1, !.invoked = TRUE, !.recvargs = a,
                       !.received = r.inj,
                       !.oout = IF body = "raise" THEN "raise" ELSE "return",
                       !.oexc = IF body = "raise" THEN "HandlerError" ELSE "none",
                       !.orv = IF body = "raise" THEN NoArgs ELSE r.inj,
                       !.out = IF body = "raise" THEN "raise" ELSE "return",
                       !.exc = IF body = "raise" THEN "HandlerError" ELSE "none",
                       !.rv = IF body = "raise" THEN NoArgs ELSE r.inj]]

\* as_view's function: self = view.view_class(); self.dispatch_request(**kw)
view(W, c, cb, vc, a, kw, fail, body) ==
    IF vc = 0 THEN view_direct(W, cb, a, kw)
    ELSE create_object(args_to_inject(W, c, Bindings(cb.fn), fail), cb, a, kw,
                       body)

\* (every callable with __bindings__ called through a wrapper)
invoke_by_bindings(W, c, cb, vc, a, kw, fail, body) ==
    IF cb.layers > 0 \/ HasBindings(cb)
    THEN wrapper(W, c, cb, a, kw, fail, body)
    ELSE IF HasViewClass(cb) THEN view(W, c, cb, vc, a, kw, fail, body)
    ELSE plain(W, c, cb, a, kw, body)

\* the framework calls a registered callable
invoke(W, c, cb, vc, a, kw, fail, body) ==
    IF cb.layers > 0 THEN wrapper(W, c, cb, a, kw, fail, body)
    ELSE IF HasViewClass(cb) THEN view(W, c, cb, vc, a, kw, fail, body)
    ELSE plain(W, c, cb, a, kw, body)

\* the request-scoped instances among the injected values inj
Instances(inj) == {inj[n].n : n \in {m \in Names : inj[m].kind = "inst"}}

\* the bounds leave room for what the call did
Within(W) == Len(W.hp) <= MaxAlloc /\ W.fails <= MaxFail

(***************************************************************************)
(* preconfigure_app and postconfigure_app.                                 *)
(***************************************************************************)
\* wrap_fun(fun, injector), lines 78-89
wrap_fun(cb) == [cb EXCEPT !.layers = @ + 1]

\* (w without its first branch)
w_skip(cb) == cb

\* w(fun), lines 143-155: what it returns
w(cb) == IF HasBindings(cb) THEN wrap_fun(cb) ELSE cb

\* w(fun), lines 146-153: what it does to fun.view_class
w_view_class(cb, vcs) ==
    IF ~HasBindings(cb) /\ HasViewClass(cb)
    THEN [vcs EXCEPT ![cb.fn] = @ + 1] ELSE vcs

\* (a rewrite that puts the wrappers first)
process_list_reorder(value) ==
    SelectSeq([i \in 1..Len(value) |-> w(value[i])], LAMBDA x : x.layers > 0)
    \o SelectSeq([i \in 1..Len(value) |-> w(value[i])], LAMBDA x : x.layers = 0)

\* process_dict, lines 159-160: value[:] = [w(fun) for fun in value]
process_list(value) == [i \in 1..Len(value) |-> w(value[i])]

\* process_dict, lines 161-162, on app.view_functions: d[key] = w(value)
process_views(d) ==
    [e \in DOMAIN d |-> IF d[e] = NoCallable THEN d[e] ELSE w(d[e])]

\* view_class of every view function after the process_dict calls (the
\* hook lists hold no function made by as_view)
process_view_class(vcs) ==
    [f \in DOMAIN vcs |->
        IF view_functions[f] # NoCallable
        THEN w_view_class(view_functions[f], vcs)[f] ELSE vcs[f]]

ViewFuns == {f \in Routes : HasViewClass(Fun(f))}

NoRequest == [endpoint |-> NoFun, kw |-> NoArgs, hp0 |-> 0, c0 |-> 0]
NoLog == [handled |-> "none", wrapped |-> FALSE, at |-> 0, exc |-> "none",
          body |-> "none"]
NoResponse == [endpoint |-> NoFun, status |-> "none", rv |-> NoArgs]

AppInit ==
    /\ phase = "new"
    /\ view_functions = [e \in Routes |-> NoCallable]
    /\ before_request_funcs = << >>
    /\ after_request_funcs = << >>
    /\ teardown_request_funcs = << >>
    /\ template_context_processors = <<Fun("_default_template_ctx_processor")>>
    /\ view_class = [f \in ViewFuns |-> 0]
    /\ regs = 0
    /\ late = FALSE
    /\ stage = [c \in Ctx |-> "idle"]
    /\ idx = [c \in Ctx |-> 0]
    /\ req = [c \in Ctx |-> NoRequest]
    /\ nreq = [c \in Ctx |-> 0]
    /\ log = [c \in Ctx |-> NoLog]
    /\ lastCall = [c \in Ctx |-> NoCall]
    /\ response = [c \in Ctx |-> NoResponse]
    /\ resolved = {}
    /\ got = [c \in Ctx |-> {}]

(***************************************************************************)
(* SpecScope: calls of reset() and get() from every context, interleaved   *)
(* statement by statement.                                                 *)
(***************************************************************************)
ScopeInit ==
    /\ AppInit
    /\ counter = 1
    /\ storage = configure(MainCtx)
    /\ providers = << >>
    /\ pc = [c \in Ctx |-> "idle"]
    /\ arg = [c \in Ctx |-> NoArg]
    /\ result = [c \in Ctx |-> NoResult]
    /\ pre = [c \in Ctx |-> NoAttr]
    /\ firstRet = [c \in Ctx |-> EmptyDict]
    /\ since = [c \in Ctx |-> EmptyDict]
    /\ stale = [c \in Ctx |-> EmptyDict]
    /\ asked = [c \in Ctx |-> {}]
    /\ fails = 0

\* reset() is called in c; line 101 runs
ResetCleanup(c) ==
    /\ pc[c] = "idle"
    /\ SetWorld(W_cleanup(World, c))
    /\ pc' = [pc EXCEPT ![c] = "reset"]
    /\ UNCHANGED <<arg, appVars>>

\* line 102 runs
ResetAssign(c) ==
    /\ pc[c] = "reset"
    /\ SetWorld(W_assign(World, c))
    /\ pc' = [pc EXCEPT ![c] = "idle"]
    /\ UNCHANGED <<arg, appVars>>

\* get(k, f) is called in c; line 111 runs and returns the cached provider
GetHit(c, k) ==
    /\ pc[c] = "idle"
    /\ lookup(storage, c, k) = "hit"
    /\ SetWorld(W_hit(W_enter(World, c), c, k))
    /\ UNCHANGED <<pc, arg, appVars>>

\* get(k, f) is called in c; line 111 raises AttributeError
GetAttributeError(c, k) ==
    /\ pc[c] = "idle"
    /\ lookup(storage, c, k) = "AttributeError"
    /\ SetWorld(W_attrerr(W_enter(World, c), c, k))
    /\ UNCHANGED <<pc, arg, appVars>>

\* get(k, f) is called in c; line 111 raises KeyError
GetKeyError(c, k) ==
    /\ pc[c] = "idle"
    /\ lookup(storage, c, k) = "KeyError"
    /\ \E f \in Factories : CanCall(World, f)
    /\ SetWorld(W_enter(World, c))
    /\ pc' = [pc EXCEPT ![c] = "miss"]
    /\ arg' = [arg EXCEPT ![c] = k]
    /\ UNCHANGED appVars

\* lines 113-115 run, with a factory that does f
GetMiss(c, f) ==
    /\ pc[c] = "miss"
    /\ CanCall(World, f)
    /\ SetWorld(W_miss(World, c, arg[c], f))
    /\ pc' = [pc EXCEPT ![c] = "idle"]
    /\ arg' = [arg EXCEPT ![c] = NoArg]
    /\ UNCHANGED appVars

ScopeNext ==
    \/ \E c \in Ctx : ResetCleanup(c)
    \/ \E c \in Ctx : ResetAssign(c)
    \/ \E c \in Ctx, k \in ScopedKeys : GetHit(c, k)
    \/ \E c \in Ctx, k \in ScopedKeys : GetAttributeError(c, k)
    \/ \E c \in Ctx, k \in ScopedKeys : GetKeyError(c, k)
    \/ \E c \in Ctx, f \in Factories : GetMiss(c, f)

SpecScope == ScopeInit /\ [][ScopeNext]_vars

(***************************************************************************)
(* Spec: setup, then requests.                                             *)
(***************************************************************************)
Init ==
    /\ AppInit
    /\ counter = 0
    /\ storage = [c \in Ctx |-> NoAttr]
    /\ providers = << >>
    /\ pc = [c \in Ctx |-> "idle"]
    /\ arg = [c \in Ctx |-> NoArg]
    /\ result = [c \in Ctx |-> NoResult]
    /\ pre = [c \in Ctx |-> NoAttr]
    /\ firstRet = [c \in Ctx |-> EmptyDict]
    /\ since = [c \in Ctx |-> EmptyDict]
    /\ stale = [c \in Ctx |-> EmptyDict]
    /\ asked = [c \in Ctx |-> {}]
    /\ fails = 0

requestVars == <<stage, idx, req, nreq, counter, log, lastCall, response,
                 resolved, got>>
hookVars == <<view_functions, before_request_funcs, after_request_funcs,
              teardown_request_funcs, template_context_processors, view_class>>

Idle == \A c \in Ctx : stage[c] = "idle"

\* requests begun so far
Served == nreq["c1"] + nreq["c2"]

\* preconfigure_app, lines 121-132: app.before_request(before_request)
preconfigure_app ==
    /\ phase = "new"
    /\ phase' = "pre"
    /\ before_request_funcs' = Append(before_request_funcs, Fun("before_request"))
    /\ UNCHANGED <<view_functions, after_request_funcs, teardown_request_funcs,
                   template_context_processors, view_class, regs, late>>
    /\ UNCHANGED <<scopeVars, requestVars>>

\* the application registers a view function: app.route / app.add_url_rule
RegisterRoute(f) ==
    /\ phase \in {"pre", "post"}
    /\ Idle
    /\ regs < MaxReg
    /\ view_functions[f] = NoCallable
    /\ view_functions' = [view_functions EXCEPT ![f] = Fun(f)]
    /\ regs' = regs + 1
    /\ late' = (late \/ phase = "post")
    /\ UNCHANGED <<phase, before_request_funcs, after_request_funcs,
                   teardown_request_funcs, template_context_processors,
                   view_class>>
    /\ UNCHANGED <<scopeVars, requestVars>>

\* the application registers a hook: app.before_request, app.after_request,
\* app.teardown_request, app.context_processor
RegisterHook(l, h) ==
    /\ phase \in {"pre", "post"}
    /\ Idle
    /\ regs < MaxReg
    /\ before_request_funcs' =
           IF l = "before" THEN Append(before_request_funcs, Fun(h))
           ELSE before_request_funcs
    /\ after_request_funcs' =
           IF l = "after" THEN Append(after_request_funcs, Fun(h))
           ELSE after_request_funcs
    /\ teardown_request_funcs' =
           IF l = "teardown" THEN Append(teardown_request_funcs, Fun(h))
           ELSE teardown_request_funcs
    /\ template_context_processors' =
           IF l = "ctxproc" THEN Append(template_context_processors, Fun(h))
           ELSE template_context_processors
    /\ regs' = regs + 1
    /\ late' = (late \/ phase = "post")
    /\ UNCHANGED <<phase, view_functions, view_class>>
    /\ UNCHANGED <<scopeVars, requestVars>>

\* postconfigure_app, lines 135-184: the five process_dict calls, the
\* teardown hook, and configure(injector.binder), whose bind_scope builds the
\* RequestScope (RequestScope.configure runs in the calling context)
postconfigure_app ==
    /\ phase = "pre"
    /\ phase' = "post"
    /\ view_functions' = process_views(view_functions)
    /\ before_request_funcs' = process_list(before_request_funcs)
    /\ after_request_funcs' = process_list(after_request_funcs)
    /\ teardown_request_funcs' =
           Append(process_list(teardown_request_funcs), Fun("tearing_down"))
    /\ template_context_processors' = process_list(template_context_processors)
    /\ view_class' = process_view_class(view_class)
    /\ storage' = configure(MainCtx)
    /\ counter' = counter + 1
    /\ UNCHANGED <<regs, late, stage, idx, req, nreq, log, lastCall, response,
                   resolved, got>>
    /\ UNCHANGED <<providers, pc, arg, result, pre, firstRet, since, stale,
                   asked, fails>>

\* fun.view_class of the view function of endpoint e
ViewClassOf(e) == IF e \in ViewFuns THEN view_class[e] ELSE 0

\* where a request goes after its view function or a before-request hook
\* returned (the after-request hooks run last registered first), and where
\* after an exception or after the last after-request hook (the teardown
\* hooks, last registered first)
ToAfter(c) ==
    IF Len(after_request_funcs) > 0
    THEN [stage |-> "after", idx |-> Len(after_request_funcs)]
    ELSE [stage |-> "teardown", idx |-> Len(teardown_request_funcs)]

ToTeardown(c) == [stage |-> "teardown", idx |-> Len(teardown_request_funcs)]

Go(c, to) ==
    /\ stage' = [stage EXCEPT ![c] = to.stage]
    /\ idx' = [idx EXCEPT ![c] = to.idx]

\* a request for endpoint e with view arguments kw arrives and is served in
\* context c; requests are served one at a time, as the test client sends
\* them (interleaved contexts are the subject of SpecScope)
Begin(c, e, kw) ==
    /\ phase = "post"
    /\ Idle
    /\ view_functions[e] # NoCallable
    /\ Served < MaxRequests
    /\ Go(c, [stage |-> "before", idx |-> 1])
    /\ req' = [req EXCEPT ![c] = [endpoint |-> e, kw |-> kw,
                                  hp0 |-> Len(providers),
                                  c0 |-> counter]]
    /\ nreq' = [nreq EXCEPT ![c] = @ + 1]
    /\ log' = [log EXCEPT ![c] = NoLog]
    /\ UNCHANGED <<counter, lastCall, response, resolved, got>>
    /\ UNCHANGED <<phase, regs, late, hookVars, scopeVars>>

\* (a hook that leaves the scope alone)
before_request_pass(c) ==
    /\ stage[c] = "before"
    /\ before_request_funcs[idx[c]].fn = "before_request"
    /\ Go(c, IF idx[c] < Len(before_request_funcs)
             THEN [stage |-> "before", idx |-> idx[c] + 1]
             ELSE [stage |-> "dispatch", idx |-> 0])
    /\ UNCHANGED <<req, nreq, log, lastCall, response, resolved, counter, got>>
    /\ UNCHANGED <<phase, regs, late, hookVars, scopeVars>>

\* before_request, lines 129-130: injector.get(request_scope_class).reset()
before_request(c) ==
    /\ stage[c] = "before"
    /\ before_request_funcs[idx[c]].fn = "before_request"
    /\ SetWorld(W_reset(World, c))
    /\ counter' = counter + 1
    /\ Go(c, IF idx[c] < Len(before_request_funcs)
             THEN [stage |-> "before", idx |-> idx[c] + 1]
             ELSE [stage |-> "dispatch", idx |-> 0])
    /\ UNCHANGED <<req, nreq, log, lastCall, response, resolved, got>>
    /\ UNCHANGED <<phase, regs, late, hookVars, pc, arg>>

\* the framework calls the next before-request hook of the application
CallBeforeHook(c, fail) ==
    /\ stage[c] = "before"
    /\ before_request_funcs[idx[c]].fn # "before_request"
    /\ \E R \in {invoke(World, c, before_request_funcs[idx[c]], 0, NoPos, NoArgs,
                         fail, "return")} :
       /\ Within(R.W)
       /\ SetWorld(R.W)
       /\ lastCall' = [lastCall EXCEPT ![c] = R.call]
       /\ resolved' = IF R.call.asked THEN resolved \cup {R.call.fn} ELSE resolved
       /\ got' = [got EXCEPT ![c] = @ \cup Instances(R.call.inj)]
       /\ Go(c, IF R.call.out = "raise" THEN ToTeardown(c)
                ELSE IF idx[c] < Len(before_request_funcs)
                THEN [stage |-> "before", idx |-> idx[c] + 1]
                ELSE [stage |-> "dispatch", idx |-> 0])
       /\ response' = [response EXCEPT ![c] =
              IF R.call.out = "raise"
              THEN [endpoint |-> req[c].endpoint, status |-> "error", rv |-> NoArgs]
              ELSE @]
    /\ UNCHANGED <<req, nreq, log, counter>>
    /\ UNCHANGED <<phase, regs, late, hookVars, pc, arg>>

\* the framework calls the view function of the request's endpoint
Dispatch(c, fail, body) ==
    /\ stage[c] = "dispatch"
    /\ \E R \in {invoke(World, c, view_functions[req[c].endpoint],
                         ViewClassOf(req[c].endpoint), NoPos, req[c].kw, fail,
                         body)} :
       /\ Within(R.W)
       /\ SetWorld(R.W)
       /\ lastCall' = [lastCall EXCEPT ![c] = R.call]
       /\ resolved' = IF R.call.asked THEN resolved \cup {R.call.fn} ELSE resolved
       /\ got' = [got EXCEPT ![c] = @ \cup Instances(R.call.inj)]
       /\ log' = [log EXCEPT ![c] = [handled |-> R.call.out,
                                     wrapped |-> R.call.wrapped,
                                     at |-> counter,
                                     exc |-> R.call.exc,
                                     body |-> body]]
       /\ response' = [response EXCEPT ![c] =
              [endpoint |-> req[c].endpoint,
               status |-> IF R.call.out = "raise" THEN "error" ELSE "ok",
               rv |-> R.rv]]
       /\ Go(c, IF R.call.out = "raise" THEN ToTeardown(c) ELSE ToAfter(c))
    /\ UNCHANGED <<req, nreq, counter>>
    /\ UNCHANGED <<phase, regs, late, hookVars, pc, arg>>

\* the framework calls the next after-request hook with the response
CallAfterHook(c, fail) ==
    /\ stage[c] = "after"
    /\ \E R \in {invoke(World, c, after_request_funcs[idx[c]], 0,
                         "(response,)", NoArgs, fail, "return")} :
       /\ Within(R.W)
       /\ SetWorld(R.W)
       /\ lastCall' = [lastCall EXCEPT ![c] = R.call]
       /\ resolved' = IF R.call.asked THEN resolved \cup {R.call.fn} ELSE resolved
       /\ got' = [got EXCEPT ![c] = @ \cup Instances(R.call.inj)]
       /\ response' = [response EXCEPT ![c] =
              IF R.call.out = "raise"
              THEN [endpoint |-> req[c].endpoint, status |-> "error", rv |-> NoArgs]
              ELSE @]
       /\ Go(c, IF R.call.out # "raise" /\ idx[c] > 1
                THEN [stage |-> "after", idx |-> idx[c] - 1]
                ELSE ToTeardown(c))
    /\ UNCHANGED <<req, nreq, log, counter>>
    /\ UNCHANGED <<phase, regs, late, hookVars, pc, arg>>

\* (a hook that resets only when it is given no exception)
tearing_down_unless_exc(c) ==
    /\ stage[c] = "teardown"
    /\ idx[c] > 0
    /\ teardown_request_funcs[idx[c]].fn = "tearing_down"
    /\ SetWorld(IF response[c].status = "error" THEN World
                ELSE W_reset(World, c))
    /\ counter' = IF response[c].status = "error" THEN counter ELSE counter + 1
    /\ Go(c, IF idx[c] > 1 THEN [stage |-> "teardown", idx |-> idx[c] - 1]
             ELSE [stage |-> "done", idx |-> 0])
    /\ UNCHANGED <<req, nreq, log, lastCall, response, resolved, got>>
    /\ UNCHANGED <<phase, regs, late, hookVars, pc, arg>>

\* tearing_down, lines 173-174: injector.get(request_scope_class).reset()
tearing_down(c) ==
    /\ stage[c] = "teardown"
    /\ idx[c] > 0
    /\ teardown_request_funcs[idx[c]].fn = "tearing_down"
    /\ SetWorld(W_reset(World, c))
    /\ counter' = counter + 1
    /\ Go(c, IF idx[c] > 1 THEN [stage |-> "teardown", idx |-> idx[c] - 1]
             ELSE [stage |-> "done", idx |-> 0])
    /\ UNCHANGED <<req, nreq, log, lastCall, response, resolved, got>>
    /\ UNCHANGED <<phase, regs, late, hookVars, pc, arg>>

\* the framework calls the next teardown hook of the application; when it
\* raises, the hooks after it do not run
CallTeardownHook(c, fail) ==
    /\ stage[c] = "teardown"
    /\ idx[c] > 0
    /\ teardown_request_funcs[idx[c]].fn # "tearing_down"
    /\ \E R \in {invoke(World, c, teardown_request_funcs[idx[c]], 0,
                         "(exc,)", NoArgs, fail, "return")} :
       /\ Within(R.W)
       /\ SetWorld(R.W)
       /\ lastCall' = [lastCall EXCEPT ![c] = R.call]
       /\ resolved' = IF R.call.asked THEN resolved \cup {R.call.fn} ELSE resolved
       /\ got' = [got EXCEPT ![c] = @ \cup Instances(R.call.inj)]
       /\ response' = [response EXCEPT ![c] =
              IF R.call.out = "raise"
              THEN [endpoint |-> req[c].endpoint, status |-> "error", rv |-> NoArgs]
              ELSE @]
       /\ Go(c, IF R.call.out # "raise" /\ idx[c] > 1
                THEN [stage |-> "teardown", idx |-> idx[c] - 1]
                ELSE [stage |-> "done", idx |-> 0])
    /\ UNCHANGED <<req, nreq, log, counter>>
    /\ UNCHANGED <<phase, regs, late, hookVars, pc, arg>>

\* the client has the response (client.get returns) and the context is free
\* for the next request
Close(c) ==
    /\ stage[c] = "done"
    /\ Go(c, [stage |-> "idle", idx |-> 0])
    /\ req' = [req EXCEPT ![c] = NoRequest]
    /\ log' = [log EXCEPT ![c] = NoLog]
    /\ lastCall' = [lastCall EXCEPT ![c] = NoCall]
    /\ response' = [response EXCEPT ![c] = NoResponse]
    /\ got' = [got EXCEPT ![c] = {}]
    /\ UNCHANGED <<nreq, counter, resolved>>
    /\ UNCHANGED <<phase, regs, late, hookVars, scopeVars>>

Next ==
    \/ preconfigure_app
    \/ \E f \in Routes : RegisterRoute(f)
    \/ \E l \in HookLists, h \in Hooks : RegisterHook(l, h)
    \/ postconfigure_app
    \/ \E c \in Ctx, e \in Routes, kw \in KwChoices : Begin(c, e, kw)
    \/ \E c \in Ctx : before_request(c)
    \/ \E c \in Ctx, fail \in BOOLEAN : CallBeforeHook(c, fail)
    \/ \E c \in Ctx, fail \in BOOLEAN, body \in {"return", "raise"} :
           Dispatch(c, fail, body)
    \/ \E c \in Ctx, fail \in BOOLEAN : CallAfterHook(c, fail)
    \/ \E c \in Ctx : tearing_down(c)
    \/ \E c \in Ctx, fail \in BOOLEAN : CallTeardownHook(c, fail)
    \/ \E c \in Ctx : Close(c)

Spec == Init /\ [][Next]_vars

(***************************************************************************)
(* Properties of the request scope, under SpecScope.                       *)
(***************************************************************************)
Returned(c, k) ==
    /\ result[c].op = "get"
    /\ result[c].key = k
    /\ result[c].out = "return"

\* C1 (idempotent scoped get): in every context c and for every key k, once
\* a get(k, f) has returned since the last reset() in c, every get(k, f) in
\* c returns that same provider, and the factory has been called exactly
\* once for k since (and including) that first get, whatever other keys
\* were fetched in between.
C1_IdempotentGet ==
    \A c \in Ctx, k \in ScopedKeys :
        firstRet[c][k] # 0 =>
            /\ since[c][k] = 1
            /\ Returned(c, k) => result[c].val = firstRet[c][k]

\* a get answered from the cache, after another key was fetched and cached
C1_Witness ==
    \E c \in Ctx, k \in ScopedKeys :
        /\ Returned(c, k)
        /\ ~result[c].called
        /\ ~result[c].first
        /\ \E k2 \in ScopedKeys \ {k} : storage[c].scope[k2] > storage[c].scope[k]

\* C2 (reset isolation): right after reset() returns in a context its store
\* is the empty dict; and when k was cached at a reset(), the first get(k, f)
\* after it calls the factory again and, when the factory returns, returns
\* a provider that is not the one cached before the reset.
C2_ResetIsolation ==
    \A c \in Ctx :
        /\ (result[c].op = "reset" /\ pc[c] # "reset") =>
               storage[c] = [has |-> TRUE, scope |-> EmptyDict]
        /\ \A k \in ScopedKeys :
               (result[c].op = "get" /\ result[c].key = k /\ result[c].first
                    /\ stale[c][k] # 0 /\ pc[c] # "reset") =>
                   /\ result[c].called
                   /\ result[c].out = "return" =>
                          /\ result[c].val # stale[c][k]
                          /\ storage[c].scope[k] = result[c].val

\* k was cached, reset() was called, and the next get(k, f) has returned
C2_Witness ==
    \E c \in Ctx, k \in ScopedKeys :
        /\ Returned(c, k)
        /\ result[c].first
        /\ stale[c][k] # 0

\* C3 (cross-request isolation): whatever the interleaving, a get in context
\* c returns only providers that a get in c created, and the store of c
\* holds only such providers.
C3_CrossRequestIsolation ==
    \A c \in Ctx :
        /\ (result[c].op = "get" /\ result[c].out = "return") =>
               providers[result[c].val].ctx = c
        /\ \A k \in ScopedKeys :
               storage[c].scope[k] # 0 => providers[storage[c].scope[k]].ctx = c

\* two contexts hold the same key at once, each with a provider of its own,
\* one of them in the middle of a call
C3_Witness ==
    \E c1 \in Ctx, c2 \in Ctx, k \in ScopedKeys :
        /\ c1 # c2
        /\ Returned(c1, k)
        /\ Returned(c2, k)
        /\ storage[c1].scope[k] # 0
        /\ pc[c2] = "reset"

\* C10 (failed factory leaves no entry): when get(k, f) misses and f raises,
\* get raises f's exception, the context's store is what it was when the
\* call began and holds no entry for k; and the get(k, f') that follows it
\* in the context calls f'.
C10_FailedFactory ==
    \A c \in Ctx :
        /\ (result[c].op = "get" /\ result[c].out = "raise" /\ result[c].called) =>
               /\ result[c].exc = FactoryError
               /\ result[c].same
               /\ pc[c] = "idle" =>
                      /\ storage[c].has
                      /\ storage[c].scope[result[c].key] = 0
        /\ (result[c].op = "get" /\ result[c].retry) => result[c].called

\* a factory raised with another key cached, and the retry has returned
C10_Witness ==
    \E c \in Ctx :
        /\ result[c].op = "get"
        /\ result[c].retry
        /\ result[c].out = "return"
        /\ \E k2 \in ScopedKeys \ {result[c].key} : storage[c].scope[k2] # 0

\* C11 (lookup never fails): once configure() has run, a get(k, f) in any
\* context raises only what its factory raised: no call of get ends with a
\* lookup error, also in a context where reset() was never called.
C11_LookupNeverFails ==
    \A c \in Ctx :
        (result[c].op = "get" /\ result[c].out = "raise") =>
            /\ result[c].called
            /\ result[c].exc = FactoryError

\* C15 (context-confined mutation): a step of reset() or get() changes the
\* store of no context but the one it runs in; and under every
\* interleaving, a get(k, f) that completes in a context whose store held k
\* when the step began returns that entry without calling the factory.
C15_ContextConfined ==
    [][\A c2 \in Ctx :
          /\ storage'[c2] # storage[c2] =>
                 /\ pc'[c2] # pc[c2]
                 /\ \A c1 \in Ctx \ {c2} : storage'[c1] = storage[c1]
          /\ \A k \in ScopedKeys :
                 (storage[c2].has /\ storage[c2].scope[k] # 0
                      /\ pc[c2] = "idle" /\ pc'[c2] = "idle"
                      /\ result'[c2] # result[c2]
                      /\ result'[c2].op = "get" /\ result'[c2].key = k) =>
                     /\ ~result'[c2].called
                     /\ result'[c2].out = "return"
                     /\ result'[c2].val = storage[c2].scope[k]
      ]_vars

\* one context is in the middle of a reset() that dropped its entry of k,
\* and the other one's get of k was answered from its own store
C15_Witness ==
    \E c1 \in Ctx, c2 \in Ctx, k \in ScopedKeys :
        /\ c1 # c2
        /\ pc[c1] = "reset"
        /\ stale[c1][k] # 0
        /\ Returned(c2, k)
        /\ ~result[c2].called
        /\ ~result[c2].first
        /\ storage[c2].scope[k] = result[c2].val

(***************************************************************************)
(* Properties of the application, under Spec.                              *)
(***************************************************************************)
\* C4 (reset count per request), as the claim states it: when everything was
\* registered between preconfigure_app and postconfigure_app, setup calls
\* reset() zero times, the total is 2n-1 while the handler of the n-th
\* request runs and 2n when n requests are over.
C4_Original ==
    ~late =>
        /\ Served = 0 => counter = 0
        /\ \A c \in Ctx :
               /\ stage[c] = "dispatch" => counter = 2 * Served - 1
               /\ stage[c] = "done" => counter = 2 * Served

\* C4 (reset count per request), amended: when everything was registered
\* between preconfigure_app and postconfigure_app, no reset() is called
\* before postconfigure_app, which calls it once (building the RequestScope);
\* every request calls reset() exactly once before its handler runs and
\* exactly once after it: the total is 2n while the handler of the n-th
\* request runs and 2n+1 when n requests are over.
C4_ResetCount ==
    ~late =>
        /\ phase # "post" => counter = 0
        /\ phase = "post" =>
               /\ Idle => counter = 2 * Served + 1
               /\ \A c \in Ctx :
                      /\ (stage[c] = "before" /\ idx[c] = 1) =>
                             counter = 2 * Served - 1
                      /\ (stage[c] = "before" /\ idx[c] > 1) =>
                             counter = 2 * Served
                      /\ stage[c] \in {"dispatch", "after"} =>
                             counter = 2 * Served
                      /\ log[c].handled # "none" => log[c].at = 2 * Served
                      /\ stage[c] = "done" => counter = 2 * Served + 1

\* the handler of the second request has run, after a first request whose
\* handler raised
C4_Witness ==
    \E c \in Ctx :
        /\ ~late
        /\ Served = 2
        /\ stage[c] = "done"
        /\ log[c].handled = "return"
        /\ log[c].at = 4
        /\ fails > 0

\* C5 (teardown-on-error): in an application whose routes and hooks were
\* all registered before postconfigure_app, when the wrapped handler of a
\* request raised, while resolving its bindings or in the original handler,
\* the request does not end (and so no next request begins) before
\* tearing_down has called reset(): exactly one reset() call was made since
\* the handler ran.
C5_TeardownOnError ==
    \A c \in Ctx :
        (~late /\ stage[c] = "done" /\ log[c].wrapped
               /\ log[c].handled = "raise") =>
            counter = log[c].at + 1

\* a request is over whose wrapped handler raised while its bindings were
\* resolved, and reset() was called after it
C5_Witness ==
    \E c \in Ctx :
        /\ ~late
        /\ stage[c] = "done"
        /\ log[c].wrapped
        /\ log[c].handled = "raise"
        /\ log[c].exc = FactoryError
        /\ counter = log[c].at + 1

\* C6 (explicit-argument precedence): whenever a wrapper made by wrap_fun
\* has called its original function, with B the function's bindings and kw
\* the keywords the wrapper was called with, the function received: for a
\* name in both B and kw the value of kw, for a name only in B the value the
\* injector resolved, for a name only in kw the value of kw, and nothing
\* for any other name.
C6_ExplicitPrecedence ==
    \A c \in Ctx :
        (lastCall[c].wrapped /\ lastCall[c].invoked
             /\ ~HasViewClass(Fun(lastCall[c].fn))) =>
            \A n \in Names :
                /\ (Bindings(lastCall[c].fn)[n] # NoBinding
                        /\ lastCall[c].kw[n] # AbsentV) =>
                       lastCall[c].received[n] = lastCall[c].kw[n]
                /\ (Bindings(lastCall[c].fn)[n] # NoBinding
                        /\ lastCall[c].kw[n] = AbsentV) =>
                       /\ lastCall[c].received[n] = lastCall[c].inj[n]
                       /\ lastCall[c].inj[n] # AbsentV
                /\ (Bindings(lastCall[c].fn)[n] = NoBinding
                        /\ lastCall[c].kw[n] # AbsentV) =>
                       lastCall[c].received[n] = lastCall[c].kw[n]
                /\ (Bindings(lastCall[c].fn)[n] = NoBinding
                        /\ lastCall[c].kw[n] = AbsentV) =>
                       lastCall[c].received[n] = AbsentV

\* a wrapped view1 was called with content given by the caller, the
\* injector resolved content to the bound value, and view1 received the
\* caller's
C6_Witness ==
    \E c \in Ctx :
        /\ lastCall[c].fn = "view1"
        /\ lastCall[c].wrapped
        /\ lastCall[c].invoked
        /\ lastCall[c].kw["content"] = UrlV
        /\ lastCall[c].inj["content"] = Const("kstr")
        /\ lastCall[c].received["content"] = UrlV

\* position i of the rewritten list new holds the wrapper of old[i] when
\* old[i] carries __bindings__, and old[i] itself otherwise
Rewritten(old, new, n) ==
    \A i \in 1..n :
        /\ new[i].fn = old[i].fn
        /\ new[i].layers = old[i].layers + (IF HasBindings(old[i]) THEN 1 ELSE 0)

\* C7 (order preservation): the step of postconfigure_app leaves every hook
\* list with its length and with, at every position i, the wrapper of the
\* entry that was at i when that entry carries __bindings__ and the entry
\* itself otherwise (the teardown list, after its rewrite, gets tearing_down
\* appended); and the set of endpoints of view_functions is unchanged.
C7_OrderPreservation ==
    [][(phase = "pre" /\ phase' = "post") =>
          /\ Len(before_request_funcs') = Len(before_request_funcs)
          /\ Rewritten(before_request_funcs, before_request_funcs',
                       Len(before_request_funcs))
          /\ Len(after_request_funcs') = Len(after_request_funcs)
          /\ Rewritten(after_request_funcs, after_request_funcs',
                       Len(after_request_funcs))
          /\ Len(template_context_processors') = Len(template_context_processors)
          /\ Rewritten(template_context_processors, template_context_processors',
                       Len(template_context_processors))
          /\ Len(teardown_request_funcs') = Len(teardown_request_funcs) + 1
          /\ Rewritten(teardown_request_funcs, teardown_request_funcs',
                       Len(teardown_request_funcs))
          /\ teardown_request_funcs'[Len(teardown_request_funcs')] =
                 Fun("tearing_down")
          /\ {e \in Routes : view_functions'[e] # NoCallable} =
                 {e \in Routes : view_functions[e] # NoCallable}
      ]_vars

\* postconfigure_app has rewritten a list of a hook without bindings, one
\* with bindings and another without, in this order
C7_Witness ==
    /\ phase = "post"
    /\ ~late
    /\ before_request_funcs =
           <<Fun("before_request"), wrap_fun(Fun("hook_db")), Fun("hook_plain")>>

\* the value the injector has bound to key k, as a request served in
\* context c gets it
BoundValue(c, k, v) ==
    IF k \in BoundKeys THEN v = Const(k)
    ELSE /\ v.kind = "inst"
         /\ v.n \in 1..Len(providers)
         /\ providers[v.n].ctx = c
         /\ providers[v.n].key = k
         /\ providers[v.n].inst = v.n

\* C8 (end-to-end injection): after preconfigure_app, the registration of
\* the handlers and postconfigure_app, the view function of a request to a
\* route whose function (view1, foo) or view class (view2) declares
\* bindings is called through the injector: it fails only when a provider
\* or the handler's own body raises, and otherwise the response is the
\* handler's result, computed with, for every binding name -> key whose name
\* the URL does not supply, the value the injector has bound to key (for the
\* view class: the values its instance was constructed with).
C8_EndToEndInjection ==
    \A c \in Ctx :
        (~late /\ log[c].handled # "none"
               /\ req[c].endpoint \in {"view1", "view2", "foo"}) =>
            /\ log[c].wrapped
            /\ log[c].handled = "raise" =>
                   \/ log[c].exc = FactoryError
                   \/ log[c].exc = "HandlerError" /\ log[c].body = "raise"
            /\ log[c].body = "return" =>
                   log[c].handled = "return" \/ log[c].exc = FactoryError
            /\ (log[c].handled = "return" /\ response[c].status = "ok") =>
                   \A n \in Names :
                       (Bindings(req[c].endpoint)[n] # NoBinding
                            /\ (req[c].kw[n] = AbsentV
                                    \/ req[c].endpoint = "view2")) =>
                           BoundValue(c, Bindings(req[c].endpoint)[n],
                                      response[c].rv[n])

\* a request to the class-based view2 was answered with the list the
\* injector has bound, after a request to view1 was served
C8_Witness ==
    \E c \in Ctx :
        /\ ~late
        /\ stage[c] = "done"
        /\ req[c].endpoint = "view2"
        /\ response[c].status = "ok"
        /\ response[c].rv["content"] = Const("klist")
        /\ "view1" \in resolved

\* C9 (deferred resolution): until the first request no binding of any
\* handler has been resolved, so postconfigure_app resolves none;
\* postconfigure_app can always complete, also when a registered handler's
\* bindings name a key the injector cannot resolve; and the call of that
\* wrapped handler raises the injector's error without calling the
\* original handler, and the request fails with it.
C9_DeferredResolution ==
    /\ Served = 0 =>
           /\ resolved = {}
           /\ providers = << >>
           /\ fails = 0
           /\ \A c \in Ctx : lastCall[c] = NoCall /\ asked[c] = {}
    /\ (phase = "post" /\ ~late /\ view_functions["bad"] # NoCallable) =>
           view_functions["bad"] = wrap_fun(Fun("bad"))
    /\ \A c \in Ctx :
           (lastCall[c].fn = "bad" /\ lastCall[c].wrapped) =>
               /\ lastCall[c].out = "raise"
               /\ lastCall[c].exc = "UnsatisfiedRequirement"
               /\ ~lastCall[c].invoked
               /\ log[c].exc = "UnsatisfiedRequirement"
               /\ response[c].status = "error"

\* a request reached the wrapped handler whose binding cannot be resolved,
\* and failed with the injector's error
C9_Witness ==
    \E c \in Ctx :
        /\ stage[c] = "done"
        /\ lastCall[c].fn = "bad"
        /\ lastCall[c].wrapped
        /\ lastCall[c].exc = "UnsatisfiedRequirement"
        /\ response[c].status = "error"

\* C12 (untouched entries): after postconfigure_app every registered
\* callable that carries no __bindings__ is the callable that was
\* registered, with no wrapper around it, and the view_class of every
\* as_view function whose class declares no bindings is the class itself.
C12_UntouchedEntries ==
    phase = "post" =>
        /\ \A e \in Routes :
               (view_functions[e] # NoCallable /\ ~HasBindings(Fun(e))) =>
                   view_functions[e] = Fun(e)
        /\ \A i \in 1..Len(before_request_funcs) :
               ~HasBindings(Fun(before_request_funcs[i].fn)) =>
                   before_request_funcs[i].layers = 0
        /\ \A i \in 1..Len(after_request_funcs) :
               ~HasBindings(Fun(after_request_funcs[i].fn)) =>
                   after_request_funcs[i].layers = 0
        /\ \A i \in 1..Len(teardown_request_funcs) :
               ~HasBindings(Fun(teardown_request_funcs[i].fn)) =>
                   teardown_request_funcs[i].layers = 0
        /\ \A i \in 1..Len(template_context_processors) :
               ~HasBindings(Fun(template_context_processors[i].fn)) =>
                   template_context_processors[i].layers = 0
        /\ \A e \in ViewFuns :
               (view_functions[e] # NoCallable /\ ~Declares(e)) =>
                   view_class[e] = 0

\* C13 (no stale instance across sequential requests): once the first hook
\* of a request has run, whatever the request scope has last returned in
\* the request's context, and whatever instance the last callable of the
\* request was injected with, was created after the request began, whether
\* or not earlier requests ended with an error.
C13_NoStaleInstance ==
    \A c \in Ctx :
        (stage[c] # "idle" /\ ~(stage[c] = "before" /\ idx[c] = 1)) =>
            /\ (result[c].op = "get" /\ result[c].out = "return") =>
                   result[c].val > req[c].hp0
            /\ \A n \in Names :
                   lastCall[c].inj[n].kind = "inst" =>
                       lastCall[c].inj[n].n > req[c].hp0

\* the second request of a context got an instance of a key from the
\* scope, the first one's instance of that key having been dropped
C13_Witness ==
    \E c \in Ctx, k \in ScopedKeys :
        /\ nreq[c] = 2
        /\ stage[c] # "idle"
        /\ Returned(c, k)
        /\ req[c].hp0 >= 1
        /\ providers[1].ctx = c
        /\ providers[1].key = k
        /\ result[c].val > req[c].hp0

\* C14 (no instance outlives its request): in an application whose routes
\* and hooks were all registered before postconfigure_app, from the end of
\* a request's last teardown hook until the next request begins in the
\* context, the context's store holds no entry.
C14_NoInstanceOutlives ==
    \A c \in Ctx :
        (~late /\ nreq[c] > 0 /\ stage[c] \in {"done", "idle"}) =>
            /\ storage[c].has
            /\ storage[c].scope = EmptyDict

\* C16 (misordered setup is silent): after postconfigure_app a function
\* with __bindings__ can sit unwrapped in view_functions only when it was
\* registered after postconfigure_app; no later step wraps it; and when it
\* is called the injector is not asked, nothing is injected, the function
\* receives the caller's keywords only and Python raises TypeError when a
\* parameter it declares is not among them.
C16_MisorderedSilent ==
    /\ [](\A e \in Routes :
             (phase = "post" /\ view_functions[e] = Fun(e)
                  /\ HasBindings(Fun(e))) => late)
    /\ [](\A c \in Ctx :
             (lastCall[c].fn \in Routes /\ HasBindings(Fun(lastCall[c].fn))
                  /\ view_functions[lastCall[c].fn] = Fun(lastCall[c].fn)) =>
                 /\ late
                 /\ ~lastCall[c].wrapped
                 /\ ~lastCall[c].asked
                 /\ lastCall[c].inj = NoArgs
                 /\ lastCall[c].received = lastCall[c].kw
                 /\ (\E n \in Names :
                        /\ Bindings(lastCall[c].fn)[n] # NoBinding
                        /\ lastCall[c].kw[n] = AbsentV) =>
                        /\ lastCall[c].out = "raise"
                        /\ lastCall[c].exc = "TypeError")
    /\ [][\A e \in Routes :
             (phase = "post" /\ view_functions[e] = Fun(e)) =>
                 view_functions'[e] = Fun(e)]_vars

\* view1 was registered after postconfigure_app, and a request to it
\* failed with TypeError, nothing having been injected
C16_Witness ==
    \E c \in Ctx :
        /\ late
        /\ view_functions["view1"] = Fun("view1")
        /\ lastCall[c].fn = "view1"
        /\ ~lastCall[c].wrapped
        /\ lastCall[c].out = "raise"
        /\ lastCall[c].exc = "TypeError"
        /\ response[c].status = "error"

\* C17 (wrapper transparency): in every call of a wrapper made by wrap_fun,
\* with positional arguments a and keywords kw, the injector is asked to
\* resolve the bindings (an instance it hands over was created in the
\* current request, not kept from setup or an earlier request); when the
\* resolution raises, the original function is not called and the wrapper
\* raises that exception; otherwise the original is called exactly once,
\* with a unchanged and the merged keywords, and the wrapper returns what it
\* returned or raises what it raised.
C17_WrapperTransparency ==
    \A c \in Ctx :
        (lastCall[c].wrapped /\ ~HasViewClass(Fun(lastCall[c].fn))) =>
            /\ lastCall[c].asked
            /\ \A n \in Names :
                   lastCall[c].inj[n].kind = "inst" =>
                       lastCall[c].inj[n].n > req[c].hp0
            /\ lastCall[c].res # "none" =>
                   /\ lastCall[c].calls = 0
                   /\ lastCall[c].out = "raise"
                   /\ lastCall[c].exc = lastCall[c].res
            /\ lastCall[c].res = "none" =>
                   /\ lastCall[c].calls = 1
                   /\ lastCall[c].recvargs = lastCall[c].args
                   /\ \A n \in Names :
                          lastCall[c].received[n] =
                              IF lastCall[c].kw[n] # AbsentV
                              THEN lastCall[c].kw[n] ELSE lastCall[c].inj[n]
                   /\ lastCall[c].out = lastCall[c].oout
                   /\ lastCall[c].exc = lastCall[c].oexc
                   /\ lastCall[c].rv = lastCall[c].orv

\* in the second request of a context, a wrapped hook was called with a
\* positional argument, which the original received together with an
\* instance resolved in that request
C17_Witness ==
    \E c \in Ctx :
        /\ nreq[c] = 2
        /\ req[c].hp0 >= 1
        /\ lastCall[c].fn = "hook_db"
        /\ lastCall[c].wrapped
        /\ lastCall[c].args # NoPos
        /\ lastCall[c].recvargs = lastCall[c].args
        /\ lastCall[c].calls = 1
        /\ lastCall[c].out = "return"
        /\ lastCall[c].received["db"] = Inst(2)

\* C18 (one instance per request across callables): in an application
\* whose routes and hooks were all registered before postconfigure_app, the
\* wrapped callables of one request (hooks and handler, all of which run
\* after the begin-request reset) that declare the same request-scoped key
\* are all injected with one and the same instance, and that instance was
\* created in this request, not in an earlier one.
C18_OneInstancePerRequest ==
    \A c \in Ctx :
        ~late =>
            /\ Cardinality(got[c]) <= 1
            /\ \A i \in got[c] : i > req[c].hp0

\* C19 (reset hook stays first): once preconfigure_app has run (no hook is
\* registered before it), the first entry of the before-request list is
\* the hook it installed, unwrapped, before and after postconfigure_app;
\* and in every request no callable has run, and nothing was resolved,
\* before that hook has called reset().
C19_ResetHookFirst ==
    /\ phase # "new" =>
           /\ Len(before_request_funcs) >= 1
           /\ before_request_funcs[1] = Fun("before_request")
           /\ \A i \in 2..Len(before_request_funcs) :
                  before_request_funcs[i].fn # "before_request"
    /\ \A c \in Ctx :
           /\ (stage[c] = "before" /\ idx[c] = 1) =>
                  /\ lastCall[c] = NoCall
                  /\ got[c] = {}
                  /\ counter = req[c].c0
           /\ lastCall[c].fn # NoFun => counter > req[c].c0

\* a wrapped before-request hook, registered after the reset hook and
\* rewritten by postconfigure_app, resolved its binding after the reset of
\* its request
C19_Witness ==
    \E c \in Ctx :
        /\ before_request_funcs =
               <<Fun("before_request"), wrap_fun(Fun("hook_db"))>>
        /\ stage[c] = "dispatch"
        /\ lastCall[c].fn = "hook_db"
        /\ lastCall[c].asked
        /\ lastCall[c].out = "return"
        /\ counter = req[c].c0 + 1

====
